---- MODULE Spec2Model ----
(***************************************************************************)
(* Archive synchronisation scripts of yangtze-1998-wrfhydro-rri:           *)
(*   scripts/download_isd_csv.py    (resumable download, verify, extract,  *)
(*                                   per-year jobs in a thread pool)       *)
(*   scripts/extract_gsod_safely.py (safe_extract, member by member)       *)
(*   scripts/extract_all_safe.py    (extract_all_safe, skip by name)       *)
(*   scripts/unpack_isd_all.py      (extract_tar, one thread per archive)  *)
(* Sizes are counted in chunks (one chunk = one iter_content block).       *)
(* Paths are sequences of segments; <<>> is the file-system root "/".      *)
(***************************************************************************)
EXTENDS Integers, Sequences, FiniteSets, TLC

\* ---------------------------------------------------------------- bounds
MaxMembers == 2     \* members per archive (extraction specification)
MaxNameLen == 2     \* segments per member name
MaxSize == 2        \* member sizes 1..MaxSize

\* ------------------------------------------------------------ path model
Segs == {"a.csv", "d", ".."}
OutRoot == <<"out">>
LinkTarget == <<"etc">>      \* where a symlink member of a crafted archive points

RECURSIVE SeqsUpTo(_, _)
SeqsUpTo(S, n) ==
  IF n = 0 THEN {<<>>}
  ELSE LET shorter == SeqsUpTo(S, n - 1)
       IN  shorter \cup {Append(q, s) : q \in {r \in shorter : Len(r) = n - 1}, s \in S}

Names == SeqsUpTo(Segs, MaxNameLen)

IsPrefix(p, q) == Len(p) <= Len(q) /\ SubSeq(q, 1, Len(p)) = p
IsStrictPrefix(p, q) == Len(p) < Len(q) /\ SubSeq(q, 1, Len(p)) = p
Parent(p) == IF p = <<>> THEN <<>> ELSE SubSeq(p, 1, Len(p) - 1)

\* os.path.abspath / normpath of an absolute path: ".." pops, "/.." is "/"
RECURSIVE NormFrom(_, _)
NormFrom(acc, rest) ==
  IF rest = <<>> THEN acc
  ELSE IF Head(rest) = ".." THEN NormFrom(Parent(acc), Tail(rest))
       ELSE NormFrom(Append(acc, Head(rest)), Tail(rest))
abspath(p) == NormFrom(<<>>, p)

\* A tree maps absolute paths to entries of kind "dir", "file" or "link";
\* every link points to LinkTarget.
Entry(k, s) == [kind |-> k, size |-> s]
BaseTree == (<<>> :> Entry("dir", 0)) @@ (LinkTarget :> Entry("dir", 0))
            @@ (OutRoot :> Entry("dir", 0))

\* os.path.realpath: as abspath, and a component that is a link is replaced
\* by the link's target.
RECURSIVE RealFrom(_, _, _)
RealFrom(t, acc, rest) ==
  IF rest = <<>> THEN acc
  ELSE IF Head(rest) = ".." THEN RealFrom(t, Parent(acc), Tail(rest))
  ELSE LET cand == Append(acc, Head(rest))
       IN  IF cand \in DOMAIN t /\ t[cand].kind = "link"
           THEN RealFrom(t, LinkTarget, Tail(rest))
           ELSE RealFrom(t, cand, Tail(rest))
realpath(t, p) == RealFrom(t, <<>>, p)

\* os.path.join(directory, member.name): an absolute name replaces the directory
join(dir, m) == IF m.abs THEN m.name ELSE dir \o m.name

\* extract_gsod_safely.is_safe_path: realpath(path) starts with realpath(basedir) + "/"
is_safe_path(t, basedir, path) == IsStrictPrefix(realpath(t, basedir), realpath(t, path))

\* download_isd_csv.extract_year_tar.is_within_directory: commonpath of abspaths
is_within_directory(directory, target) == IsPrefix(abspath(directory), abspath(target))

\* ------------------------------------------------------ file operations
\* The result of an operation on a tree: the new tree, or an OSError.
Ok(t) == [ok |-> TRUE, tree |-> t]
Err(t) == [ok |-> FALSE, tree |-> t]

\* os.makedirs(p, exist_ok=True): every missing prefix becomes a directory
Prefixes(p) == {SubSeq(p, 1, i) : i \in 0..Len(p)}
makedirs(t, p) ==
  LET locs == {realpath(t, q) : q \in Prefixes(p)}
      clash == \E q \in locs : q \in DOMAIN t /\ t[q].kind = "file"
      new == {q \in locs : q \notin DOMAIN t}
  IN  IF clash THEN Err(t)
      ELSE Ok([q \in DOMAIN t \cup new |-> IF q \in DOMAIN t THEN t[q] ELSE Entry("dir", 0)])

\* open(p, "wb") and the copy of `size` chunks
writefile(t, p, size) ==
  LET q == realpath(t, p)
  IN  IF \/ q = <<>>
         \/ Parent(q) \notin DOMAIN t
         \/ t[Parent(q)].kind # "dir"
         \/ (q \in DOMAIN t /\ t[q].kind = "dir")
      THEN Err(t)
      ELSE Ok((q :> Entry("file", size)) @@ t)

\* os.path.exists(p)
exists(t, p) == realpath(t, p) \in DOMAIN t

\* os.path.getsize(p): st_size of what p resolves to; for a directory that is
\* the size of the directory entry itself, DirSize in the units of the
\* member sizes
DirSize == 1
getsize(t, p) ==
  LET e == t[realpath(t, p)]
  IN  IF e.kind = "file" THEN e.size ELSE DirSize

\* os.path.getsize(p) == size
sameSize(t, p, size) == getsize(t, p) = size

\* os.listdir(dir): the names directly under dir
listdir(t, dir) == {p[Len(dir) + 1] : p \in {q \in DOMAIN t : Parent(q) = dir /\ q # dir}}
csvCount(t, dir) == Cardinality({n \in listdir(t, dir) : n = "a.csv"})

\* ------------------------------------------------------------- archives
Member(n, a, ty, s) == [name |-> n, abs |-> a, type |-> ty, size |-> s]
Members ==
  {Member(n, a, "reg", s) : n \in Names, a \in BOOLEAN, s \in 1..MaxSize}
  \cup {Member(n, a, "dir", 0) : n \in Names, a \in BOOLEAN}
  \cup {Member(n, FALSE, "sym", 0) : n \in {q \in Names : Len(q) = 1 /\ q # <<"..">>}}

Archives == UNION {[1..n -> Members] : n \in 0..MaxMembers}

\* ---------------------------------------- extract_gsod_safely.safe_extract
\* One iteration of the loop `for m in tar` on tree t with output directory
\* out_dir.  what: "ignored" (neither file nor directory), "unsafe" (path check
\* failed), "dir", "skipped" (exists with the member's size), "written", or
\* "raise" (an OSError leaves the loop).
Step(t, w) == [tree |-> t, what |-> w]

safe_extract_member(t, out_dir, m) ==
  LET target == out_dir \o m.name          \* os.path.join(out_dir, m.name.lstrip("/"))
  IN  IF m.type \notin {"dir", "reg"} THEN Step(t, "ignored")
      ELSE IF ~is_safe_path(t, out_dir, target) THEN Step(t, "unsafe")
      ELSE IF m.type = "dir"
           THEN LET r == makedirs(t, target)
                IN  Step(r.tree, IF r.ok THEN "dir" ELSE "raise")
      ELSE IF exists(t, target) /\ sameSize(t, target, m.size) THEN Step(t, "skipped")
      ELSE LET r1 == makedirs(t, Parent(target))
               r2 == writefile(r1.tree, target, m.size)
           IN  IF ~r1.ok THEN Step(r1.tree, "raise")
               ELSE Step(r2.tree, IF r2.ok THEN "written" ELSE "raise")

\* ------------------------------------------------ tarfile.extractall(path)
\* The extraction filter is the interpreter's default: "fully_trusted"
\* (Python 3.10 to 3.13) or "data" (Python 3.14).
Filters == {"fully_trusted", "data"}

\* tarfile.data_filter: the destination must resolve inside path, and a link
\* to an absolute target is refused
data_filter_ok(t, path, m) ==
  /\ m.type # "sym"
  /\ IsPrefix(realpath(t, path), realpath(t, path \o m.name))

\* os.symlink(linkname, targetpath) after unlinking what is there
makelink(t, p) ==
  LET q == realpath(t, Parent(p)) \o <<p[Len(p)]>>
  IN  IF Parent(q) \notin DOMAIN t \/ (q \in DOMAIN t /\ t[q].kind = "dir")
      THEN Err(t)
      ELSE Ok((q :> Entry("link", 0)) @@ t)

\* TarFile._extract_member on tree t
extractall_member(t, path, m, filter) ==
  LET targetpath == IF filter = "data" THEN path \o m.name ELSE join(path, m)
      up == makedirs(t, Parent(targetpath))
      r == IF m.type = "dir" THEN makedirs(up.tree, targetpath)
           ELSE IF m.type = "sym" THEN makelink(up.tree, targetpath)
           ELSE writefile(up.tree, targetpath, m.size)
  IN  IF filter = "data" /\ ~data_filter_ok(t, path, m) THEN Step(t, "raise")
      ELSE IF targetpath = <<>> \/ ~up.ok THEN Step(up.tree, "raise")
      ELSE Step(r.tree, IF r.ok THEN (IF m.type = "reg" THEN "written" ELSE m.type)
                        ELSE "raise")

\* -------------------------------- download_isd_csv.extract_year_tar, entry
\* makedirs(year_dir); a populated directory returns at once ("return"); a
\* member failing is_within_directory raises ("raise"); else extractall runs
\* ("extract").
extract_year_tar_begin(t, year_dir, arch) ==
  LET r == makedirs(t, year_dir)
  IN  IF ~r.ok THEN Step(r.tree, "raise")
      ELSE IF listdir(r.tree, year_dir) # {} THEN Step(r.tree, "return")
      ELSE IF \E i \in 1..Len(arch) : ~is_within_directory(year_dir, join(year_dir, arch[i]))
           THEN Step(r.tree, "raise")
      ELSE Step(r.tree, "extract")

\* ---------------------------------- extract_all_safe.extract_all_safe
\* os.path.basename(member.name) and name.lower().endswith(".csv")
basename(n) == IF n = <<>> THEN "" ELSE n[Len(n)]
is_csv(s) == s = "a.csv"

\* One iteration of `for member in tar`: "ignored" (not a regular file, or
\* not a .csv name), "skipped" (out_dir / basename exists), "written"
\* (tar.extract succeeded), "failed" (tar.extract raised; the warning is
\* printed and the loop goes on)
extract_all_safe_member(t, out_dir, m, filter) ==
  LET name == basename(m.name)
      dest_file == Append(out_dir, name)
      r == extractall_member(t, out_dir, m, filter)
  IN  IF m.type # "reg" \/ ~is_csv(name) THEN Step(t, "ignored")
      ELSE IF exists(t, dest_file) THEN Step(t, "skipped")
      ELSE Step(r.tree, IF r.what = "raise" THEN "failed" ELSE "written")

\* ======================================================================
\* Extraction on its own: one archive, extracted MaxCalls times into the
\* same output directory by safe_extract (extract_gsod_safely.main), by
\* extract_year_tar or by extract_all_safe.
\* ======================================================================
MaxCalls == 2
MaxArchives == 3    \* archives isd_*.tar.gz in the raw directory (unpack_isd_all)

VARIABLES
  xArch,      \* the archive's members, in order
  xRoutine,   \* "safe_extract", "extract_year_tar" or "extract_all_safe"
  xFilter,    \* tarfile's default extraction filter of the interpreter
  xTree,      \* the file system
  xPc,        \* "idle", "loop", "returned", "raised", "killed"
  xIdx,       \* next member of the loop
  xCount,     \* safe_extract: count; extract_year_tar: the returned count
  xSkipped,   \* safe_extract: skipped
  xWrites,    \* file contents written by the current call
  xCall,      \* number of the current call
  xFirst      \* what the first call returned

xvars == <<xArch, xRoutine, xFilter, xTree, xPc, xIdx, xCount, xSkipped, xWrites,
           xCall, xFirst>>

NoResult == [pc |-> "none", count |-> 0, skipped |-> 0, tree |-> BaseTree]

\* ======================================================================
\* unpack_isd_all.py: every archive isd_*.tar.gz of the raw directory is
\* extracted into the directory of its year by a thread of a pool.
\* ======================================================================
VARIABLES
  uRaw,       \* RAW_DIR: file name -> archive
  uTree,      \* year -> the file system seen from TARGET_DIR/<year> (OutRoot)
  uFiles,     \* main's tar_files
  uJob,       \* index of tar_files -> the state of extract_tar(file_path)
  uMain       \* main(): pc and the lines written to the log

uvars == <<uRaw, uTree, uFiles, uJob, uMain>>

XInit ==
  /\ xArch \in Archives
  /\ \/ xRoutine = "safe_extract" /\ xFilter = "fully_trusted"
     \/ xRoutine = "extract_year_tar" /\ xFilter \in Filters
     \/ xRoutine = "extract_all_safe" /\ xFilter \in Filters
  /\ xTree = BaseTree
  /\ xPc = "idle"
  /\ xIdx = 1
  /\ xCount = 0
  /\ xSkipped = 0
  /\ xWrites = 0
  /\ xCall = 1
  /\ xFirst = NoResult

\* ======================================================================
\* download_isd_csv.py: the remote server, the raw directory, the jobs
\* ======================================================================
ObjChunks == 2      \* size T of every remote archive, in chunks
MaxRuns == 2        \* runs of the script in one behaviour

AllYears == {1998, 1999}
Kinds == {"plain", "isd_a", "isd_b"}   \* YYYY.tar.gz, isd_YYYY_a_csv.tar.gz, isd_YYYY_b_csv.tar.gz
FileName(y, k) == [year |-> y, kind |-> k]
FileNames == {FileName(y, k) : y \in AllYears, k \in Kinds}
None == [year |-> 0, kind |-> "none"]

\* The index page is the sequence of its entries (the anchor texts
\* `>name<`), in page order.
\* re.findall(rf'>(?:\s*)({year}\.tar\.gz)<', index_html), and the same for
\* isd_{year}_[\w\-]*csv\.tar\.gz: the matching entries, in page order
IsPlainOf(e, year) == e.year = year /\ e.kind = "plain"
IsDecoratedOf(e, year) == e.year = year /\ e.kind # "plain"
findall_plain(index_html, year) == SelectSeq(index_html, LAMBDA e : IsPlainOf(e, year))
findall_decorated(index_html, year) == SelectSeq(index_html, LAMBDA e : IsDecoratedOf(e, year))

\* the order of str: isd_Y_a_csv.tar.gz < isd_Y_b_csv.tar.gz, a smaller year first
KindRank(k) == CASE k = "isd_a" -> 1 [] k = "isd_b" -> 2 [] OTHER -> 0
StrLeq(f, g) == f.year < g.year \/ (f.year = g.year /\ KindRank(f.kind) <= KindRank(g.kind))

\* (variant: the last match of the page instead of the last in sorted order)
last_listed(m) == m[Len(m)]

\* sorted(set(m))[-1]
sorted_set_last(m) ==
  LET s == {m[i] : i \in 1..Len(m)}
  IN  CHOOSE f \in s : \A g \in s : StrLeq(g, f)

\* (variant: the patterns do not contain the year)
pick_filename_any_year(index_html, year) ==
  IF index_html # <<>> THEN index_html[1] ELSE [year |-> 0, kind |-> "none"]

\* pick_filename_for_year: the plain name if listed, else the last decorated
\* name in sorted order, else None
pick_filename_for_year(index_html, year) ==
  LET m1 == findall_plain(index_html, year)
      m2 == findall_decorated(index_html, year)
  IN  IF m1 # <<>> THEN sorted_set_last(m1)
      ELSE IF m2 # <<>> THEN sorted_set_last(m2)
      ELSE None

\* A path of RAW_DIR: a file name, or that name + ".part"
RawPath(f, part) == [name |-> f, part |-> part]
RawPaths == {RawPath(f, b) : f \in FileNames, b \in BOOLEAN}
NoFile == [exists |-> FALSE, data |-> <<>>]
File(d) == [exists |-> TRUE, data |-> d]

NoRange == -1

\* (variant: the bytes are streamed to the destination path itself)
tmp_path_is_dest(dest) == dest

\* tmp_path = dest_path + ".part"
tmp_path(dest) == RawPath(dest.name, TRUE)

\* (variant: the Range header is never sent)
range_header_never(downloaded) == NoRange

\* headers["Range"] = f"bytes={downloaded}-" if downloaded > 0
range_header(downloaded) == IF downloaded > 0 THEN downloaded ELSE NoRange

\* mode = "ab" if downloaded > 0 and accept_ranges != "none" else "wb"
open_mode(downloaded, accept_ranges) == IF downloaded > 0 /\ accept_ranges THEN "ab" ELSE "wb"

\* (variant: the comparison of the size check is reversed)
incomplete_reversed(total, downloaded) == total # 0 /\ downloaded > total

\* the size check after the stream: `if total and downloaded < total: raise IOError`
incomplete(total, downloaded) == total # 0 /\ downloaded < total

\* (variant: the corrupted archive is left where it is)
remove_nothing(files, path) == files

\* os.remove(path)
remove(files, path) == [files EXCEPT ![path] = [exists |-> FALSE, data |-> <<>>]]

\* (variant: the status line is logged by the job and again by main)
collect_twice(results, year, status) ==
  results \o <<[year |-> year, status |-> status], [year |-> year, status |-> status]>>

\* results.append((year, msg)) after logging.info(msg)
collect(results, year, status) == Append(results, [year |-> year, status |-> status])

\* The remote object: chunks 1..ObjChunks
Chunks(a, b) == [i \in 1..(b - a + 1) |-> a + i - 1]
Object == Chunks(1, ObjChunks)

\* What the server sends for a GET: with a Range header it honours, chunks
\* offset+1.. (status 206), or status 416 when the offset is not below the
\* size; otherwise the whole object (status 200).  NoRange: no Range header.
Response(status, body) == [status |-> status, body |-> body]
ServerGet(srv, range) ==
  IF range # NoRange /\ srv.honour
  THEN IF range >= ObjChunks THEN Response(416, <<>>)
       ELSE Response(206, Chunks(range + 1, ObjChunks))
  ELSE Response(200, Object)

\* verify_gzip: tarfile.open and getmembers succeed iff the file is the whole
\* of a well-formed archive
verify_gzip(file, arch) == file.exists /\ file.data = Object /\ arch.wellFormed

\* The remote archives of the pipeline specifications
RemoteArchive(w, ms) == [wellFormed |-> w, members |-> ms]
CsvFile == Member(<<"a.csv">>, FALSE, "reg", 1)
Escaping == Member(<<"..", "a.csv">>, FALSE, "reg", 1)
Malformed == RemoteArchive(FALSE, <<>>)
YearTree == (<<>> :> Entry("dir", 0)) @@ (LinkTarget :> Entry("dir", 0))

VARIABLES
  years,      \* the range of the run (args.start .. args.end)
  workers,    \* args.workers
  keep_tar,   \* args.keep_tar
  listing,    \* the remote directory index: the entries of the page, in order
  server,     \* [advertise, honour, reportLen]: Accept-Ranges, Range, Content-Length
  remote,     \* year -> the archive the server holds
  pyfilter,   \* tarfile's default extraction filter of the interpreter
  raw,        \* RAW_DIR: raw path -> file
  tree,       \* year -> the file system seen from EXTRACT_DIR/<year> (OutRoot)
  job,        \* year -> the state of process_one_year(year)
  main,       \* the state of main(): pc, index_html, results
  run,        \* number of the current run
  hist        \* year -> what earlier runs and this run did (for the properties)

pvars == <<years, workers, keep_tar, listing, server, remote, pyfilter, raw, tree,
           job, main, run, hist>>
vars == <<pvars, xvars, uvars>>

IdleJob == [pc |-> "none", fn |-> None, downloaded |-> 0, total |-> 0, mode |-> "wb",
            range |-> NoRange, body |-> <<>>, cut |-> FALSE, checked |-> FALSE,
            startK |-> 0, wrote |-> 0, idx |-> 1, status |-> "none", stage |-> "none",
            err |-> "none", dl |-> FALSE, n |-> 0, worker |-> 0, starts |-> 0,
            verified |-> FALSE, retries |-> 0]
\* No assignment, import or def of the module binds the name `df`
df_is_defined == FALSE

\* The end of the script: `if __name__ == "__main__": main()` and then the
\* statement `df` at module level.  An exception that leaves main() ends the
\* process with status 1; when main() returns, `df` is evaluated, and an
\* undefined name is a NameError, which ends the process with status 1 too.
exit_status(raised) == IF raised \/ ~df_is_defined THEN 1 ELSE 0

NoExit == -1        \* the process has not ended
\* a line that main() logs after the pool
LogLine(kind) == [kind |-> kind, counts |-> <<>>]
\* logging.info("=== ISD CSV download finished: ... ==="); logging.info("Log file: ...")
closing_lines == <<LogLine("finished"), LogLine("logfile")>>

IdleMain == [pc |-> "start", index |-> <<>>, results |-> <<>>, exit |-> NoExit,
             tail |-> <<>>, fetches |-> 0]
NoHist == [prevStatus |-> "none", prevTree |-> YearTree, gets |-> 0, writes |-> 0]

raw_path(y) == RawPath(job[y].fn, FALSE)
Running == {y \in years : job[y].pc \notin {"none", "queued", "done", "raised"}}
Busy == {job[y].worker : y \in Running}

\* (variant: a submitted job is run at once, whatever the threads are doing)
first_worker(busy, max_workers) == 1

\* ThreadPoolExecutor(max_workers=args.workers): the threads are numbered
\* 1..max_workers; a queued job is taken by an idle thread (the lowest one;
\* the threads are interchangeable), 0 when every thread is busy
idle_worker(busy, max_workers) ==
  LET idle == (1..max_workers) \ busy
  IN  IF idle = {} THEN 0 ELSE CHOOSE w \in idle : \A v \in idle : w <= v

\* (variant: no try/except around the job: the exception leaves it)
Uncaught(j, st) == [j EXCEPT !.pc = "raised", !.stage = st]

\* process_one_year's `except Exception as e: return year, "[ERR] ..."`
Caught(j, st) == [j EXCEPT !.pc = "done", !.status = "Failed", !.stage = st,
                            !.err = "exception"]
\* RETRIES = 8: Retry(total=RETRIES, connect=RETRIES, read=RETRIES, status=RETRIES)
RETRIES == 8

\* HTTPAdapter(max_retries=retry): inside SESSION.head / SESSION.get an
\* attempt that fails by a connection error, a timeout or a status of the
\* force list is repeated by the adapter; the call fails (it raises, or
\* raise_for_status does) when RETRIES repetitions have failed as well
request_failed(j) ==
  [Caught(j, "download") EXCEPT !.err = "request", !.retries = RETRIES]

\* the other returns of process_one_year
Return(j, status) == [j EXCEPT !.pc = "done", !.status = status]

\* ------------------------------------------------ process_one_year(year)
Set(y, j) == job' = [job EXCEPT ![y] = j]
Did(y, g, w) == hist' = [hist EXCEPT ![y].gets = @ + g, ![y].writes = @ + w]

\* (variant: an archive found on disk is extracted without verification)
trust_present(present) == IF present THEN "extract" ELSE "dl_head"

\* `if not os.path.exists(raw_path): download_with_resume(...)`, and then
\* verify_gzip in either case
next_after_resolve(present) == IF present THEN "verify" ELSE "dl_head"
StageOf(pc) == CASE pc = "dl_head" -> "download" [] pc = "verify" -> "verify"
                 [] OTHER -> "extract"

\* A worker takes the oldest queued job: resolve the name, the
\* already-extracted check, the archive-present check
JStart(y) ==
  /\ main.pc = "pool" /\ job[y].pc = "queued"
  /\ \A z \in years : job[z].pc = "queued" => y <= z
  /\ idle_worker(Busy, workers) # 0
  /\ LET fn == pick_filename_for_year(main.index, y)
         j == [job[y] EXCEPT !.fn = fn, !.stage = "resolve", !.starts = @ + 1,
                             !.worker = idle_worker(Busy, workers)]
     IN  Set(y, IF fn = None THEN Return(j, "NotFound")
                ELSE IF OutRoot \in DOMAIN tree[y] /\ listdir(tree[y], OutRoot) # {}
                     THEN Return(j, "Skipped")
                ELSE LET nx == next_after_resolve(raw[RawPath(fn, FALSE)].exists)
                     IN  [j EXCEPT !.pc = nx, !.stage = StageOf(nx), !.dl = (nx = "dl_head")])
  /\ UNCHANGED <<uvars, xvars, years, workers, keep_tar, listing, server, remote, pyfilter, raw, tree,
                 main, run, hist>>

\* download_with_resume: size of the .part file, Range header, HEAD request, mode
DlHead(y) ==
  /\ main.pc = "pool" /\ job[y].pc = "dl_head"
  /\ LET tmp == tmp_path(raw_path(y))
         have == IF raw[tmp].exists THEN Len(raw[tmp].data) ELSE 0
         mode == open_mode(have, server.advertise)
     IN  \/ Set(y, request_failed(job[y]))            \* the HEAD request fails
         \/ Set(y, [job[y] EXCEPT !.pc = "dl_get",
                      !.startK = have,
                      !.range = range_header(have),
                      !.total = IF server.reportLen THEN ObjChunks ELSE 0,
                      !.mode = mode,
                      !.downloaded = IF mode = "wb" THEN 0 ELSE have,
                      !.wrote = 0, !.cut = FALSE, !.checked = FALSE])
  /\ UNCHANGED <<uvars, xvars, years, workers, keep_tar, listing, server, remote, pyfilter, raw, tree,
                 main, run, hist>>

\* download_with_resume: the GET request, raise_for_status, open(tmp_path, mode)
DlGet(y) ==
  /\ main.pc = "pool" /\ job[y].pc = "dl_get"
  /\ LET tmp == tmp_path(raw_path(y))
         r == ServerGet(server, job[y].range)
     IN  \/ Set(y, request_failed(job[y])) /\ UNCHANGED raw   \* the request fails
         \/ IF r.status >= 400                                 \* raise_for_status
            THEN Set(y, [Caught(job[y], "download") EXCEPT !.err = "status"]) /\ UNCHANGED raw
            ELSE /\ Set(y, [job[y] EXCEPT !.pc = "dl_stream", !.body = r.body])
                 /\ raw' = [raw EXCEPT ![tmp] = IF job[y].mode = "ab" /\ @.exists
                                                THEN @ ELSE File(<<>>)]
  /\ Did(y, 1, 0)
  /\ UNCHANGED <<uvars, xvars, years, workers, keep_tar, listing, server, remote, pyfilter, tree,
                 main, run>>

\* download_with_resume: f.write(chunk); downloaded += len(chunk)
DlChunk(y) ==
  /\ main.pc = "pool" /\ job[y].pc = "dl_stream" /\ job[y].body # <<>>
  /\ raw' = [raw EXCEPT ![tmp_path(raw_path(y))] = File(Append(@.data, Head(job[y].body)))]
  /\ Set(y, [job[y] EXCEPT !.body = Tail(@), !.downloaded = @ + 1, !.wrote = @ + 1])
  /\ Did(y, 0, 1)
  /\ UNCHANGED <<uvars, xvars, years, workers, keep_tar, listing, server, remote, pyfilter, tree,
                 main, run>>

\* the connection breaks while streaming: iter_content raises
DlStreamError(y) ==
  /\ main.pc = "pool" /\ job[y].pc = "dl_stream" /\ job[y].body # <<>>
  /\ Set(y, [Caught(job[y], "download") EXCEPT !.err = "stream"])
  /\ UNCHANGED <<uvars, xvars, years, workers, keep_tar, listing, server, remote, pyfilter, raw, tree,
                 main, run, hist>>

\* the stream ends (possibly early: cut) and the size check runs
DlEof(y) ==
  /\ main.pc = "pool" /\ job[y].pc = "dl_stream"
  /\ LET j == [job[y] EXCEPT !.cut = (job[y].body # <<>>)]
     IN  Set(y, IF incomplete(j.total, j.downloaded)
                THEN [Caught(j, "download") EXCEPT !.err = "incomplete"]   \* IOError("Incomplete download")
                ELSE [j EXCEPT !.pc = "dl_rename", !.checked = TRUE])
  /\ UNCHANGED <<uvars, xvars, years, workers, keep_tar, listing, server, remote, pyfilter, raw, tree,
                 main, run, hist>>

\* os.replace(tmp_path, dest_path)
DlRename(y) ==
  /\ main.pc = "pool" /\ job[y].pc = "dl_rename"
  /\ raw' = [raw EXCEPT ![raw_path(y)] = raw[tmp_path(raw_path(y))],
                        ![tmp_path(raw_path(y))] = NoFile]
  /\ Set(y, [job[y] EXCEPT !.pc = "verify", !.stage = "verify"])
  /\ UNCHANGED <<uvars, xvars, years, workers, keep_tar, listing, server, remote, pyfilter, tree,
                 main, run, hist>>

\* verify_gzip(raw_path); a corrupted archive is removed
JVerify(y) ==
  /\ main.pc = "pool" /\ job[y].pc = "verify"
  /\ IF verify_gzip(raw[raw_path(y)], remote[y])
     THEN /\ Set(y, [job[y] EXCEPT !.pc = "extract", !.stage = "extract", !.verified = TRUE])
          /\ UNCHANGED raw
     ELSE /\ Set(y, Return(job[y], "Corrupted"))
          /\ raw' = remove(raw, raw_path(y))
  /\ UNCHANGED <<uvars, xvars, years, workers, keep_tar, listing, server, remote, pyfilter, tree,
                 main, run, hist>>

\* extract_year_tar up to the call of extractall
JExtractBegin(y) ==
  /\ main.pc = "pool" /\ job[y].pc = "extract"
  /\ LET r == extract_year_tar_begin(tree[y], OutRoot, remote[y].members)
     IN  /\ tree' = [tree EXCEPT ![y] = r.tree]
         /\ Set(y, CASE r.what = "return" ->
                          [Return(job[y], "Done") EXCEPT !.n = csvCount(r.tree, OutRoot)]
                     [] r.what = "raise" -> Caught(job[y], "extract")
                     [] OTHER -> [job[y] EXCEPT !.pc = "extractall", !.idx = 1])
  /\ UNCHANGED <<uvars, xvars, years, workers, keep_tar, listing, server, remote, pyfilter, raw,
                 main, run, hist>>

\* tar.extractall(year_dir): one member
JExtractMember(y) ==
  /\ main.pc = "pool" /\ job[y].pc = "extractall" /\ job[y].idx <= Len(remote[y].members)
  /\ LET r == extractall_member(tree[y], OutRoot, remote[y].members[job[y].idx], pyfilter)
     IN  /\ tree' = [tree EXCEPT ![y] = r.tree]
         /\ Set(y, IF r.what = "raise" THEN Caught(job[y], "extract")
                   ELSE [job[y] EXCEPT !.idx = @ + 1])
         /\ Did(y, 0, IF r.what = "written" THEN 1 ELSE 0)
  /\ UNCHANGED <<uvars, xvars, years, workers, keep_tar, listing, server, remote, pyfilter, raw,
                 main, run>>

\* extract_year_tar returns the count; sleep; return "[✓] ..."
JExtractEnd(y) ==
  /\ main.pc = "pool" /\ job[y].pc = "extractall" /\ job[y].idx > Len(remote[y].members)
  /\ Set(y, [Return(job[y], "Done") EXCEPT !.n = csvCount(tree[y], OutRoot)])
  /\ UNCHANGED <<uvars, xvars, years, workers, keep_tar, listing, server, remote, pyfilter, raw, tree,
                 main, run, hist>>

\* ----------------------------------------------------------------- main()
Collected == {main.results[i].year : i \in 1..Len(main.results)}

\* (variant: the jobs are submitted before the listing is fetched)
submit_unconditionally(fetched, in_range) ==
  IF in_range THEN [IdleJob EXCEPT !.pc = "queued"] ELSE IdleJob

\* futs = {ex.submit(process_one_year, y, index_html): y for y in years},
\* reached only when fetch_directory_index returned
submit(fetched, in_range) ==
  IF fetched /\ in_range THEN [IdleJob EXCEPT !.pc = "queued"] ELSE IdleJob

\* fetch_directory_index, then submit one job per year
MFetch ==
  /\ main.pc = "start"
  /\ \/ /\ main' = [main EXCEPT !.pc = "crashed", !.exit = exit_status(TRUE),
                                 !.fetches = @ + 1]                       \* raise_for_status
        /\ job' = [y \in AllYears |-> submit(FALSE, y \in years)]
     \/ /\ main' = [main EXCEPT !.pc = "pool", !.index = listing, !.fetches = @ + 1]
        /\ job' = [y \in AllYears |-> submit(TRUE, y \in years)]
  /\ UNCHANGED <<uvars, xvars, years, workers, keep_tar, listing, server, remote, pyfilter, raw, tree,
                 run, hist>>

\* for fut in as_completed(futs): fut.result(); logging.info(msg); results.append
MCollect(y) ==
  /\ main.pc = "pool" /\ y \in years /\ y \notin Collected
  /\ job[y].pc \in {"done", "raised"}
  /\ main' = IF job[y].pc = "raised"
             THEN [main EXCEPT !.pc = "crashed", !.exit = exit_status(TRUE)]
             ELSE [main EXCEPT !.results = collect(@, y, job[y].status)]
  /\ UNCHANGED <<uvars, xvars, years, workers, keep_tar, listing, server, remote, pyfilter, raw, tree,
                 job, run, hist>>

\* after the pool: unless --keep-tar, remove the archives of every year of
\* the range under both naming patterns; main() returns and the script ends
MCleanup ==
  /\ main.pc = "pool" /\ Collected = years
  /\ raw' = IF keep_tar THEN raw
            ELSE [p \in RawPaths |-> IF p.name.year \in years /\ ~p.part THEN NoFile
                                     ELSE raw[p]]
  /\ main' = [main EXCEPT !.pc = "finished", !.exit = exit_status(FALSE),
                           !.tail = closing_lines]
  /\ UNCHANGED <<uvars, xvars, years, workers, keep_tar, listing, server, remote, pyfilter, tree,
                 job, run, hist>>

\* The script is started again on the same directories: every variable of
\* the process starts afresh, the files stay.  finished: the run before ended
\* normally.
StartOver(finished) ==
  /\ run < MaxRuns
  /\ run' = run + 1
  /\ main' = IdleMain
  /\ job' = [y \in AllYears |-> IdleJob]
  /\ hist' = [y \in AllYears |->
                [NoHist EXCEPT !.prevStatus = IF finished THEN job[y].status ELSE "none",
                               !.prevTree = tree[y]]]
  /\ UNCHANGED <<uvars, xvars, years, workers, keep_tar, listing, server, remote, pyfilter, raw,
                 tree>>

\* the process is interrupted while the pool runs, and the script is run again
Interrupt == main.pc = "pool" /\ StartOver(FALSE)

\* the script ended (normally, or with the listing fetch failing) and is run again
NextRun == main.pc \in {"finished", "crashed"} /\ StartOver(main.pc = "finished")

PNext ==
  \/ MFetch \/ MCleanup \/ Interrupt \/ NextRun
  \/ \E y \in AllYears :
       \/ JStart(y) \/ DlHead(y) \/ DlGet(y) \/ DlChunk(y) \/ DlStreamError(y)
       \/ DlEof(y) \/ DlRename(y) \/ JVerify(y)
       \/ JExtractBegin(y) \/ JExtractMember(y) \/ JExtractEnd(y)
       \/ MCollect(y)

Next == PNext

\* ------------------------------------------- extraction on its own
\* extract_gsod_safely.main: makedirs(out_dir), open the archive, enter the loop
XSafeBegin ==
  /\ xRoutine = "safe_extract" /\ xPc = "idle"
  /\ xTree' = makedirs(xTree, OutRoot).tree
  /\ xPc' = "loop" /\ xIdx' = 1 /\ xCount' = 0 /\ xSkipped' = 0 /\ xWrites' = 0
  /\ UNCHANGED <<uvars, pvars, xArch, xRoutine, xFilter, xCall, xFirst>>

\* safe_extract: one member
XSafeMember ==
  /\ xRoutine = "safe_extract" /\ xPc = "loop" /\ xIdx <= Len(xArch)
  /\ LET r == safe_extract_member(xTree, OutRoot, xArch[xIdx])
     IN  /\ xTree' = r.tree
         /\ xPc' = IF r.what = "raise" THEN "raised" ELSE "loop"
         /\ xCount' = IF r.what = "written" THEN xCount + 1 ELSE xCount
         /\ xWrites' = IF r.what = "written" THEN xWrites + 1 ELSE xWrites
         /\ xSkipped' = IF r.what = "skipped" THEN xSkipped + 1 ELSE xSkipped
  /\ xIdx' = xIdx + 1
  /\ UNCHANGED <<uvars, pvars, xArch, xRoutine, xFilter, xCall, xFirst>>

\* safe_extract: return count, skipped
XSafeReturn ==
  /\ xRoutine = "safe_extract" /\ xPc = "loop" /\ xIdx > Len(xArch)
  /\ xPc' = "returned"
  /\ UNCHANGED <<uvars, pvars, xArch, xRoutine, xFilter, xTree, xIdx, xCount, xSkipped, xWrites,
                 xCall, xFirst>>

\* safe_extract is interrupted: between two members, or while a member is
\* copied, which leaves the first k chunks of it in the file
XSafeKill ==
  /\ xRoutine = "safe_extract" /\ xPc = "loop"
  /\ \/ UNCHANGED <<xTree, xWrites>>
     \/ /\ xIdx <= Len(xArch)
        /\ \E k \in 0..MaxSize :
             LET m == xArch[xIdx]
                 r == safe_extract_member(xTree, OutRoot, [m EXCEPT !.size = k])
             IN  /\ m.type = "reg" /\ k < m.size /\ r.what = "written"
                 /\ safe_extract_member(xTree, OutRoot, m).what = "written"
                 /\ xTree' = r.tree /\ xWrites' = xWrites + 1
  /\ xPc' = "killed"
  /\ UNCHANGED <<uvars, pvars, xArch, xRoutine, xFilter, xIdx, xCount, xSkipped, xCall, xFirst>>

\* extract_year_tar up to the call of extractall
XYearBegin ==
  /\ xRoutine = "extract_year_tar" /\ xPc = "idle"
  /\ LET r == extract_year_tar_begin(xTree, OutRoot, xArch)
     IN  /\ xTree' = r.tree
         /\ xPc' = CASE r.what = "return" -> "returned"
                     [] r.what = "raise" -> "raised"
                     [] OTHER -> "loop"
         /\ xCount' = IF r.what = "return" THEN csvCount(r.tree, OutRoot) ELSE 0
  /\ xIdx' = 1 /\ xSkipped' = 0 /\ xWrites' = 0
  /\ UNCHANGED <<uvars, pvars, xArch, xRoutine, xFilter, xCall, xFirst>>

\* tar.extractall(year_dir): one member
XYearMember ==
  /\ xRoutine = "extract_year_tar" /\ xPc = "loop" /\ xIdx <= Len(xArch)
  /\ LET r == extractall_member(xTree, OutRoot, xArch[xIdx], xFilter)
     IN  /\ xTree' = r.tree
         /\ xPc' = IF r.what = "raise" THEN "raised" ELSE "loop"
         /\ xWrites' = IF r.what = "written" THEN xWrites + 1 ELSE xWrites
  /\ xIdx' = xIdx + 1
  /\ UNCHANGED <<uvars, pvars, xArch, xRoutine, xFilter, xCount, xSkipped, xCall, xFirst>>

\* extract_year_tar: count the .csv names of year_dir and return
XYearReturn ==
  /\ xRoutine = "extract_year_tar" /\ xPc = "loop" /\ xIdx > Len(xArch)
  /\ xCount' = csvCount(xTree, OutRoot)
  /\ xPc' = "returned"
  /\ UNCHANGED <<uvars, pvars, xArch, xRoutine, xFilter, xTree, xIdx, xSkipped, xWrites, xCall, xFirst>>

\* extract_all_safe: out_dir.mkdir(parents=True, exist_ok=True), open the archive
XAllBegin ==
  /\ xRoutine = "extract_all_safe" /\ xPc = "idle"
  /\ LET r == makedirs(xTree, OutRoot)
     IN  xTree' = r.tree /\ xPc' = IF r.ok THEN "loop" ELSE "raised"
  /\ xIdx' = 1 /\ xCount' = 0 /\ xSkipped' = 0 /\ xWrites' = 0
  /\ UNCHANGED <<uvars, pvars, xArch, xRoutine, xFilter, xCall, xFirst>>

\* extract_all_safe: one member
XAllMember ==
  /\ xRoutine = "extract_all_safe" /\ xPc = "loop" /\ xIdx <= Len(xArch)
  /\ LET r == extract_all_safe_member(xTree, OutRoot, xArch[xIdx], xFilter)
     IN  /\ xTree' = r.tree
         /\ xCount' = IF r.what = "written" THEN xCount + 1 ELSE xCount
         /\ xWrites' = IF r.what = "written" THEN xWrites + 1 ELSE xWrites
         /\ xSkipped' = IF r.what = "skipped" THEN xSkipped + 1 ELSE xSkipped
  /\ xIdx' = xIdx + 1
  /\ UNCHANGED <<uvars, pvars, xArch, xRoutine, xFilter, xPc, xCall, xFirst>>

\* extract_all_safe: the loop ends, the totals are printed
XAllReturn ==
  /\ xRoutine = "extract_all_safe" /\ xPc = "loop" /\ xIdx > Len(xArch)
  /\ xPc' = "returned"
  /\ UNCHANGED <<uvars, pvars, xArch, xRoutine, xFilter, xTree, xIdx, xCount, xSkipped, xWrites,
                 xCall, xFirst>>

\* extract_all_safe is interrupted: between two members, or while tar.extract
\* copies a member, which leaves the first k chunks of it in the file
XAllKill ==
  /\ xRoutine = "extract_all_safe" /\ xPc = "loop"
  /\ \/ UNCHANGED <<xTree, xWrites>>
     \/ /\ xIdx <= Len(xArch)
        /\ \E k \in 0..MaxSize :
             LET m == xArch[xIdx]
                 r == extract_all_safe_member(xTree, OutRoot, [m EXCEPT !.size = k], xFilter)
             IN  /\ k < m.size /\ r.what = "written"
                 /\ xTree' = r.tree /\ xWrites' = xWrites + 1
  /\ xPc' = "killed"
  /\ UNCHANGED <<uvars, pvars, xArch, xRoutine, xFilter, xIdx, xCount, xSkipped, xCall, xFirst>>

\* the script is run again on the same archive and output directory
XAgain ==
  /\ xPc \in {"returned", "raised", "killed"} /\ xCall < MaxCalls
  /\ xFirst' = IF xCall = 1
               THEN [pc |-> xPc, count |-> xCount, skipped |-> xSkipped, tree |-> xTree]
               ELSE xFirst
  /\ xCall' = xCall + 1
  /\ xPc' = "idle"
  /\ UNCHANGED <<uvars, pvars, xArch, xRoutine, xFilter, xTree, xIdx, xCount, xSkipped, xWrites>>

XNext ==
  \/ XSafeBegin \/ XSafeMember \/ XSafeReturn \/ XSafeKill
  \/ XYearBegin \/ XYearMember \/ XYearReturn
  \/ XAllBegin \/ XAllMember \/ XAllReturn \/ XAllKill
  \/ XAgain

\* ------------------------------------------------------ unpack_isd_all.py
\* ThreadPoolExecutor(max_workers=6)
max_workers == 6

\* glob.glob(os.path.join(RAW_DIR, "isd_*.tar.gz"))
glob_isd(dir) == {f \in DOMAIN dir : f.kind # "plain"}

\* sorted(names)
RECURSIVE sorted(_)
sorted(S) ==
  IF S = {} THEN <<>>
  ELSE LET m == CHOOSE x \in S : \A z \in S : StrLeq(x, z)
       IN  <<m>> \o sorted(S \ {m})

\* year = os.path.basename(file_path).split("_")[1]
year_of(file_path) == file_path.year

UJobIdle == [pc |-> "queued", worker |-> 0, idx |-> 1, result |-> "none", n |-> 0]
UBusy == {uJob[i].worker : i \in {k \in DOMAIN uJob : uJob[k].pc \notin {"queued", "done"}}}
UResult(j, res) == [j EXCEPT !.pc = "done", !.result = res]
ULogged == {uMain.log[k].file : k \in 1..Len(uMain.log)}

\* main: the archives are listed; none: print and return; else one job per
\* archive is submitted and the log is opened
UMainBegin ==
  /\ uMain.pc = "start"
  /\ uFiles' = sorted(glob_isd(uRaw))
  /\ uJob' = [i \in 1..Len(uFiles') |-> UJobIdle]
  /\ uMain' = [uMain EXCEPT !.pc = IF uFiles' = <<>> THEN "finished" ELSE "pool"]
  /\ UNCHANGED <<pvars, xvars, uRaw, uTree>>

\* extract_tar, started by an idle thread: the year of the name,
\* os.makedirs(out_dir, exist_ok=True)
UTarBegin(i) ==
  /\ uMain.pc = "pool" /\ i \in DOMAIN uJob /\ uJob[i].pc = "queued"
  /\ \A k \in DOMAIN uJob : uJob[k].pc = "queued" => i <= k
  /\ idle_worker(UBusy, max_workers) # 0
  /\ LET year == year_of(uFiles[i])
         r == makedirs(uTree[year], OutRoot)
         j == [uJob[i] EXCEPT !.worker = idle_worker(UBusy, max_workers)]
     IN  /\ uTree' = [uTree EXCEPT ![year] = r.tree]
         /\ uJob' = [uJob EXCEPT ![i] = IF r.ok THEN [j EXCEPT !.pc = "check"]
                                        ELSE UResult(j, "error")]
  /\ UNCHANGED <<pvars, xvars, uRaw, uFiles, uMain>>

\* extract_tar: `if any(os.scandir(out_dir)): return skipped`, then
\* tarfile.open(file_path, "r:gz")
UTarCheck(i) ==
  /\ uMain.pc = "pool" /\ i \in DOMAIN uJob /\ uJob[i].pc = "check"
  /\ uJob' = [uJob EXCEPT ![i] =
                IF listdir(uTree[year_of(uFiles[i])], OutRoot) # {} THEN UResult(@, "skipped")
                ELSE IF ~uRaw[uFiles[i]].wellFormed THEN UResult(@, "error")
                ELSE [@ EXCEPT !.pc = "extract", !.idx = 1]]
  /\ UNCHANGED <<pvars, xvars, uRaw, uTree, uFiles, uMain>>

\* tar.extractall(out_dir): one member
UTarMember(i) ==
  /\ uMain.pc = "pool" /\ i \in DOMAIN uJob /\ uJob[i].pc = "extract"
  /\ uJob[i].idx <= Len(uRaw[uFiles[i]].members)
  /\ LET year == year_of(uFiles[i])
         r == extractall_member(uTree[year], OutRoot, uRaw[uFiles[i]].members[uJob[i].idx],
                                pyfilter)
     IN  /\ uTree' = [uTree EXCEPT ![year] = r.tree]
         /\ uJob' = [uJob EXCEPT ![i] = IF r.what = "raise" THEN UResult(@, "error")
                                        ELSE [@ EXCEPT !.idx = @ + 1]]
  /\ UNCHANGED <<pvars, xvars, uRaw, uFiles, uMain>>

\* extract_tar: return f"{year}: done ({len(os.listdir(out_dir))} files)"
UTarEnd(i) ==
  /\ uMain.pc = "pool" /\ i \in DOMAIN uJob /\ uJob[i].pc = "extract"
  /\ uJob[i].idx > Len(uRaw[uFiles[i]].members)
  /\ uJob' = [uJob EXCEPT ![i] =
                [UResult(@, "done") EXCEPT
                   !.n = Cardinality(listdir(uTree[year_of(uFiles[i])], OutRoot))]]
  /\ UNCHANGED <<pvars, xvars, uRaw, uTree, uFiles, uMain>>

\* main: for future in as_completed(futures): print and log the result
ULog(i) ==
  /\ uMain.pc = "pool" /\ i \in DOMAIN uJob /\ uJob[i].pc = "done" /\ i \notin ULogged
  /\ uMain' = [uMain EXCEPT !.log = Append(@, [file |-> i, result |-> uJob[i].result,
                                                n |-> uJob[i].n])]
  /\ UNCHANGED <<pvars, xvars, uRaw, uTree, uFiles, uJob>>

\* main: every result is logged; "All done"
UMainEnd ==
  /\ uMain.pc = "pool" /\ ULogged = DOMAIN uJob
  /\ uMain' = [uMain EXCEPT !.pc = "finished"]
  /\ UNCHANGED <<pvars, xvars, uRaw, uTree, uFiles, uJob>>

UNext ==
  \/ UMainBegin \/ UMainEnd
  \/ \E i \in 1..MaxArchives :
       UTarBegin(i) \/ UTarCheck(i) \/ UTarMember(i) \/ UTarEnd(i) \/ ULog(i)

Servers == [advertise : BOOLEAN, honour : BOOLEAN, reportLen : BOOLEAN]

PInit(Ys, Srvs, Lists, Archs, Ws, Fs) ==
  /\ years \in Ys
  /\ workers \in Ws
  /\ keep_tar \in BOOLEAN
  /\ server \in Srvs
  /\ pyfilter \in Fs
  /\ listing \in Lists
  /\ \E as \in [AllYears -> Archs] :
       remote = [y \in AllYears |-> IF y \in years THEN as[y] ELSE Malformed]
  /\ raw = [p \in RawPaths |-> NoFile]
  /\ tree = [y \in AllYears |-> YearTree]
  /\ job = [y \in AllYears |-> IdleJob]
  /\ main = IdleMain
  /\ run = 1
  /\ hist = [y \in AllYears |-> NoHist]

UIdle ==
  /\ uRaw = <<>> /\ uTree = [y \in AllYears |-> YearTree] /\ uFiles = <<>>
  /\ uJob = <<>> /\ uMain = [pc |-> "start", log |-> <<>>]

XIdle ==
  /\ xArch = <<>> /\ xRoutine = "safe_extract" /\ xFilter = "fully_trusted"
  /\ xTree = BaseTree /\ xPc = "idle" /\ xIdx = 1 /\ xCount = 0 /\ xSkipped = 0
  /\ xWrites = 0 /\ xCall = 1 /\ xFirst = NoResult

\* A run over two years: jobs interleave in the pool
Init ==
  /\ PInit({{1998, 1999}},
           {[advertise |-> TRUE, honour |-> TRUE, reportLen |-> TRUE]},
           {<<>>, <<FileName(1998, "plain")>>, <<FileName(1999, "plain")>>,
            <<FileName(1998, "plain"), FileName(1999, "plain")>>},
           {RemoteArchive(TRUE, <<CsvFile>>), RemoteArchive(TRUE, <<Escaping>>), Malformed},
           {1, 2}, {"fully_trusted"})
  /\ XIdle /\ UIdle
Spec == Init /\ [][Next]_vars

\* Runs over one year, against every server and every kind of archive
InitYear ==
  /\ PInit({{1998}}, Servers,
           {<<>>,
            <<FileName(1998, "plain"), FileName(1998, "plain")>>,
            <<FileName(1998, "isd_b"), FileName(1998, "isd_a")>>,
            <<FileName(1998, "isd_a"), FileName(1998, "plain"), FileName(1999, "plain")>>,
            <<FileName(1999, "plain"), FileName(1999, "isd_a")>>},
           {RemoteArchive(TRUE, <<>>), RemoteArchive(TRUE, <<CsvFile>>),
            RemoteArchive(TRUE, <<Member(<<"d", "a.csv">>, FALSE, "reg", 1)>>),
            RemoteArchive(TRUE, <<CsvFile, Member(<<"d", "a.csv">>, FALSE, "reg", 1)>>),
            RemoteArchive(TRUE, <<Escaping>>),
            RemoteArchive(TRUE, <<Member(<<"d">>, FALSE, "sym", 0),
                                  Member(<<"d", "a.csv">>, FALSE, "reg", 1)>>),
            Malformed},
           {1}, Filters)
  /\ XIdle /\ UIdle
SpecYear == InitYear /\ [][Next]_vars

\* Between two runs the server may withdraw the entries of its index page
\* (fetch_directory_index reads the page anew in every run)
RemoteListingWithdrawn ==
  /\ main.pc \in {"finished", "crashed"} /\ listing # <<>>
  /\ listing' = <<>>
  /\ UNCHANGED <<uvars, xvars, years, workers, keep_tar, server, remote, pyfilter, raw, tree,
                 job, main, run, hist>>

\* Runs over one year against a healthy server whose index page may change
\* between the runs
InitRelist ==
  /\ PInit({{1998}},
           {[advertise |-> TRUE, honour |-> TRUE, reportLen |-> TRUE]},
           {<<FileName(1998, "plain")>>, <<FileName(1998, "isd_a")>>},
           {RemoteArchive(TRUE, <<CsvFile>>), Malformed},
           {1}, {"fully_trusted"})
  /\ XIdle /\ UIdle
NextRelist == Next \/ RemoteListingWithdrawn
SpecRelist == InitRelist /\ [][NextRelist]_vars

\* Extraction on its own
InitExtract ==
  /\ XInit
  /\ years = {} /\ workers = 1 /\ keep_tar = TRUE /\ listing = <<>>
  /\ server = [advertise |-> TRUE, honour |-> TRUE, reportLen |-> TRUE]
  /\ remote = [y \in AllYears |-> Malformed]
  /\ pyfilter = "fully_trusted"
  /\ raw = [p \in RawPaths |-> NoFile]
  /\ tree = [y \in AllYears |-> YearTree]
  /\ job = [y \in AllYears |-> IdleJob]
  /\ main = IdleMain /\ run = 1
  /\ hist = [y \in AllYears |-> NoHist]
  /\ UIdle
SpecExtract == InitExtract /\ [][XNext]_vars

\* unpack_isd_all.py on a raw directory of up to MaxArchives archives
\* isd_*.tar.gz (and possibly a file of another name), the directory of
\* 1998 empty or already populated
UNames == {FileName(1998, "isd_a"), FileName(1998, "isd_b"), FileName(1999, "isd_a")}
UContents == {RemoteArchive(TRUE, <<CsvFile>>),
              RemoteArchive(TRUE, <<CsvFile, Member(<<"d", "a.csv">>, FALSE, "reg", 1)>>),
              Malformed}
Populated == (OutRoot \o <<"a.csv">> :> Entry("file", 1)) @@ (OutRoot :> Entry("dir", 0))
               @@ YearTree
InitUnpack ==
  /\ \E N \in SUBSET UNames, other \in SUBSET {FileName(1998, "plain")} :
       \E c \in [N -> UContents] :
         /\ Cardinality(N) <= MaxArchives
         /\ uRaw = [f \in N \cup other |-> IF f \in N THEN c[f] ELSE Malformed]
  /\ uTree \in [AllYears -> {YearTree, Populated}] /\ uTree[1999] = YearTree
  /\ uFiles = <<>> /\ uJob = <<>> /\ uMain = [pc |-> "start", log |-> <<>>]
  /\ XIdle
  /\ years = {} /\ workers = 1 /\ keep_tar = TRUE /\ listing = <<>>
  /\ server = [advertise |-> TRUE, honour |-> TRUE, reportLen |-> TRUE]
  /\ remote = [y \in AllYears |-> Malformed]
  /\ pyfilter \in Filters
  /\ raw = [p \in RawPaths |-> NoFile]
  /\ tree = [y \in AllYears |-> YearTree]
  /\ job = [y \in AllYears |-> IdleJob]
  /\ main = IdleMain /\ run = 1
  /\ hist = [y \in AllYears |-> NoHist]
SpecUnpack == InitUnpack /\ [][UNext]_vars

\* Entries that extraction created outside the output root
Outside(t) == {p \in DOMAIN t : ~IsPrefix(OutRoot, p)} \ DOMAIN BaseTree

\* C2: no extraction routine creates or writes a file or directory outside
\* the output root, whatever the member sequence.
C2_NothingOutsideRoot == Outside(xTree) = {}

\* C7: a second call on a directory that a complete first call populated
\* from the same archive writes no file content and accounts for the same
\* files (safe_extract: skipped = first count + first skipped;
\* extract_year_tar: the same count).
C7_SecondCallWritesNothing ==
  (xCall = 2 /\ xPc = "returned" /\ xFirst.pc = "returned")
    => /\ xWrites = 0
       /\ xTree = xFirst.tree
       /\ IF xRoutine = "safe_extract"
          THEN xCount = 0 /\ xSkipped = xFirst.count + xFirst.skipped
          ELSE xCount = xFirst.count

\* ======================================================================
\* Properties of the download and of the jobs
\* ======================================================================
DestPaths == {p \in RawPaths : ~p.part}
Published(y) == job[y].pc = "verify" /\ job[y].checked   \* download_with_resume just returned

\* a job that failed in the download has no file at its final path
C1_FailedLeavesNoDest ==
  \A y \in years :
    (job[y].pc = "done" /\ job[y].status = "Failed" /\ job[y].stage = "download")
      => ~raw[raw_path(y)].exists
\* a step that changes a final path removes the file or is the rename
C1_OnlyRenameCreates ==
  \A p \in DestPaths :
    raw'[p] # raw[p] =>
      \/ ~raw'[p].exists
      \/ \E y \in years :
           /\ job[y].pc = "dl_rename" /\ job[y].checked /\ raw_path(y) = p
           /\ raw'[p] = raw[RawPath(p.name, TRUE)]
           /\ ~raw'[RawPath(p.name, TRUE)].exists
\* C1: the destination path comes into existence only by the rename of the
\* '.part' file of a transfer that reached the end of its stream and passed
\* the size check (streamed bytes go to the '.part' path only), and a job
\* that failed while downloading has no file at its final archive path.
C1_DestOnlyByRename == []C1_FailedLeavesNoDest /\ [][C1_OnlyRenameCreates]_vars
C1_Witness ==
  \E y \in years : Published(y) /\ raw[raw_path(y)].exists /\ run = 2 /\ job[y].startK > 0

\* a download that resumed a partial file has just returned
Resumed(y) ==
  /\ Published(y) /\ 0 < job[y].startK /\ job[y].startK < ObjChunks
  /\ server.advertise /\ server.honour /\ ~job[y].cut
\* C3: resuming from a partial file of K chunks, 0 < K < T, against a server
\* that advertises and honours ranges and whose stream is not cut short, the
\* call writes exactly T - K chunks and publishes the object itself.
C3_ResumeCorrect ==
  \A y \in years :
    Resumed(y) => /\ job[y].wrote = ObjChunks - job[y].startK
                  /\ raw[raw_path(y)] = File(Object)
C3_Witness == \E y \in years : Resumed(y)

\* C4: when the probe reports no range support and a partial file exists,
\* the published file is the complete object downloaded from byte zero.
C4_FallbackPublishesWholeObject ==
  \A y \in years :
    (Published(y) /\ job[y].startK > 0 /\ ~server.advertise /\ ~job[y].cut)
      => raw[raw_path(y)] = File(Object)

\* C5: a stream that ends with fewer chunks accounted for than the reported
\* total T > 0 makes the download fail, without the rename and with the
\* partial file left in place; the size check never passes below the total.
C5_IncompleteIsFailure ==
  \A y \in years :
    /\ (job[y].pc \in {"dl_rename", "verify"} /\ job[y].checked /\ job[y].total > 0)
         => job[y].downloaded >= job[y].total
    /\ (job[y].pc = "done" /\ job[y].err = "incomplete")
         => /\ job[y].status = "Failed"
            /\ job[y].total > 0 /\ job[y].downloaded < job[y].total
            /\ ~raw[raw_path(y)].exists
            /\ raw[tmp_path(raw_path(y))].exists
C5_Witness ==
  \E y \in years : job[y].pc = "done" /\ job[y].err = "incomplete" /\ job[y].wrote > 0

\* C6: a period that ended Done in the previous complete run ends Skipped in
\* the next run, with no content request, nothing written and the same tree.
C6_SecondRunSkips ==
  \A y \in years :
    (main.pc = "finished" /\ hist[y].prevStatus = "Done")
      => /\ job[y].status = "Skipped"
         /\ hist[y].gets = 0 /\ hist[y].writes = 0
         /\ tree[y] = hist[y].prevTree

\* the archive of a Corrupted job is gone; the run after it downloads
C8_CorruptedState ==
  \A y \in years :
    /\ (job[y].pc = "done" /\ job[y].status = "Corrupted") => ~raw[raw_path(y)].exists
    /\ (hist[y].prevStatus = "Corrupted" /\ job[y].pc \notin {"none", "queued"})
         => job[y].dl /\ job[y].status # "Skipped"
\* the step a job takes when verification fails
C8_VerifyFailureStep ==
  \A y \in years :
    (job[y].pc = "verify" /\ ~verify_gzip(raw[raw_path(y)], remote[y]) /\ job'[y] # job[y])
      => \/ job'[y].pc = "none"       \* the process was interrupted
         \/ /\ job'[y].pc = "done" /\ job'[y].status = "Corrupted"
            /\ ~raw'[raw_path(y)].exists
            /\ tree' = tree
Lines(y) == Cardinality({i \in 1..Len(main.results) : main.results[i].year = y})
Terminal == {"Done", "Skipped", "NotFound", "Corrupted", "Failed"}
\* C9: every period of the range gets exactly one outcome and one status
\* line per run: never two lines, and one line each when the run ends,
\* whatever the interleaving and whatever stage a job fails in.
C9_OneStatusLinePerPeriod ==
  /\ \A i \in 1..Len(main.results) :
       LET r == main.results[i]
       IN  r.year \in years /\ r.status \in Terminal
           /\ job[r.year].pc = "done" /\ job[r.year].status = r.status
  /\ \A y \in AllYears : Lines(y) <= 1
  /\ main.pc = "finished" => \A y \in years : Lines(y) = 1
C9_Witness ==
  /\ main.pc = "finished"
  /\ job[1998].status = "Failed" /\ job[1998].stage = "extract"
  /\ job[1999].status = "Corrupted"
  /\ main.results[1].year = 1999

\* everything that belongs to one period
View(y) == <<job[y], tree[y], hist[y], [k \in Kinds |-> <<raw[RawPath(FileName(y, k), FALSE)],
                                                         raw[RawPath(FileName(y, k), TRUE)]>>]>>
C10_NoAbort ==
  /\ main.pc = "crashed" => \A y \in AllYears : job[y].pc = "none"
  /\ main.pc = "finished" => \A y \in years : job[y].pc = "done" /\ job[y].status \in Terminal
  /\ \A y \in years : job[y].pc # "raised"
C10_JobStepsAreLocal ==
  (main' = main /\ run' = run)
    => \A y1, y2 \in AllYears : (y1 # y2 /\ View(y1)' # View(y1)) => View(y2)' = View(y2)
\* C10: a job's failure never aborts the orchestrator or keeps another job
\* from reaching its terminal state, and a step of one job changes nothing
\* of another period (its job, its files, its tree).
C10_FailureIsolation == []C10_NoAbort /\ [][C10_JobStepsAreLocal]_vars
C10_Witness ==
  /\ main.pc = "finished"
  /\ job[1998].status = "Failed" /\ job[1998].stage = "download"
  /\ job[1999].status = "Done"

\* how each run of the script ended
ListingFetchFailed == main.pc = "crashed" /\ \A y \in AllYears : job[y].pc = "none"
\* C11: the process ends with a non-zero exit status only when the listing
\* fetch failed; when the fetch succeeded it ends with status zero, however
\* many periods ended NotFound, Corrupted or Failed.
C11_ExitStatus ==
  main.exit # NoExit => (main.exit # 0 <=> ListingFetchFailed)

\* canonical containment: the resolved candidate is the resolved root or
\* lies below it
CanonicalInside(t, root, cand) == IsPrefix(realpath(t, root), realpath(t, cand))
\* C12: wherever a routine applies its path guard to a member's destination,
\* the guard answers true exactly when the canonical candidate equals the
\* canonical root or is a descendant of it (true for the root itself).
C12_GuardIsCanonicalContainment ==
  /\ (xRoutine = "safe_extract" /\ xPc = "loop" /\ xIdx <= Len(xArch)
        /\ xArch[xIdx].type \in {"dir", "reg"})
       => LET target == OutRoot \o xArch[xIdx].name
          IN  is_safe_path(xTree, OutRoot, target) <=> CanonicalInside(xTree, OutRoot, target)
  /\ (xRoutine = "extract_year_tar" /\ xPc = "idle" /\ makedirs(xTree, OutRoot).ok
        /\ extract_year_tar_begin(xTree, OutRoot, xArch).what # "return")
       => \A i \in 1..Len(xArch) :
            LET member_path == join(OutRoot, xArch[i])
            IN  is_within_directory(OutRoot, member_path)
                  <=> CanonicalInside(makedirs(xTree, OutRoot).tree, OutRoot, member_path)

\* a member whose destination leaves the output root: an absolute name, or
\* a name that climbs out by ".."
Unsafe(m) == m.abs \/ ~IsPrefix(OutRoot, abspath(OutRoot \o m.name))
\* C13: an archive that is readable and holds a member failing the path
\* guard does not fail the job: the member is skipped and every other
\* regular-file member is extracted.
C13_UnsafeMemberSkipped ==
  \A y \in years :
    LET ms == remote[y].members
    IN  (/\ job[y].pc = "done" /\ job[y].stage = "extract"
         /\ \E i \in 1..Len(ms) : Unsafe(ms[i])
         /\ \A i \in 1..Len(ms) : ms[i].type \in {"reg", "dir"})
          => /\ job[y].status # "Failed"
             /\ \A i \in 1..Len(ms) :
                  (~Unsafe(ms[i]) /\ ms[i].type = "reg") => exists(tree[y], OutRoot \o ms[i].name)

Listed(index_html, f) == \E i \in 1..Len(index_html) : index_html[i] = f
DecoratedListed(index_html, y) ==
  {f \in FileNames : f.year = y /\ f.kind # "plain" /\ Listed(index_html, f)}
\* C14: the name a job resolved is the plain name of its period whenever the
\* listing holds it (also next to decorated names and repeated entries),
\* otherwise the greatest decorated name of the period in string order,
\* otherwise none; it is never a name of another period.
C14_ResolutionPolicy ==
  \A y \in years :
    job[y].stage # "none" =>
      LET fn == job[y].fn
          deco == DecoratedListed(main.index, y)
      IN  /\ Listed(main.index, FileName(y, "plain")) => fn = FileName(y, "plain")
          /\ (~Listed(main.index, FileName(y, "plain")) /\ deco # {})
               => fn \in deco /\ \A g \in deco : g = fn \/ ~StrLeq(fn, g)
          /\ (~Listed(main.index, FileName(y, "plain")) /\ deco = {}) => fn = None
          /\ fn # None => fn.year = y /\ Listed(main.index, fn)
C14_Witness ==
  \E y \in years :
    /\ job[y].fn = FileName(y, "isd_b")
    /\ main.index[Len(main.index)] = FileName(y, "isd_a")

\* the step of main() from the end of the pool to the end of the run
CleanupStep == main.pc = "pool" /\ main'.pc = "finished"
\* C15: cleanup deletes an archive only when archives are not retained and
\* the period's job verified and extracted it (Done), leaves such a period
\* without an archive under either naming pattern, and never deletes the
\* archive of a period whose job ended Failed.
C15_CleanupStepDeletesOnlyExtracted ==
  CleanupStep =>
    /\ \A p \in DestPaths :
         raw'[p] # raw[p] => ~keep_tar /\ p.name.year \in years
                             /\ job[p.name.year].status = "Done"
    /\ \A y \in years :
         (~keep_tar /\ job[y].status = "Done")
           => \A k \in Kinds : ~raw'[RawPath(FileName(y, k), FALSE)].exists
C15_CleanupOnlyExtracted == [][C15_CleanupStepDeletesOnlyExtracted]_vars

Counts(status) == Cardinality({y \in years : job[y].status = status})
\* a first run on empty directories, every archive valid, no request failing
HealthyFirstRun ==
  /\ run = 1 /\ main.pc = "finished"
  /\ server.advertise /\ server.honour /\ server.reportLen
  /\ \A y \in years : /\ remote[y] = RemoteArchive(TRUE, <<CsvFile>>)
                       /\ ~(job[y].status = "Failed" /\ job[y].stage = "download")
YearListed(y) == \E i \in 1..Len(main.index) : main.index[i].year = y
\* the outcomes of such a run: Done for a listed period, NotFound otherwise
C16_Outcomes ==
  \A y \in years : job[y].status = IF YearListed(y) THEN "Done" ELSE "NotFound"
\* C16: in a healthy first run every listed period ends Done and every
\* unlisted period NotFound, whatever the width and the completion order,
\* and the run logs a final summary whose count per status is the number of
\* periods with that outcome.
C16_OutcomesAndSummary ==
  HealthyFirstRun =>
    /\ C16_Outcomes
    /\ \E i \in 1..Len(main.tail) :
         /\ main.tail[i].kind = "summary"
         /\ \A s \in Terminal : main.tail[i].counts[s] = Counts(s)

\* C17: at every moment at most `workers` jobs have started and not ended,
\* no thread runs two unfinished jobs at once, every period of the range is
\* started at most once and, when the run ends, exactly once.
C17_BoundedPool ==
  /\ Cardinality(Running) <= workers
  /\ \A y1, y2 \in Running : y1 # y2 => job[y1].worker # job[y2].worker
  /\ \A y \in AllYears :
       /\ job[y].starts <= 1
       /\ job[y].starts = 1 => y \in years /\ job[y].worker \in 1..workers
       /\ job[y].pc \in {"none", "queued"} <=> job[y].starts = 0
  /\ main.pc = "finished" => \A y \in years : job[y].starts = 1
C17_Witness ==
  /\ workers = 1 /\ Running = {1998} /\ job[1998].pc = "dl_stream"
  /\ job[1999].pc = "queued"

\* one fetch per run, finished before any job exists; a job resolves on the
\* fetched text; a failed fetch leaves no job
C18_FetchedOnceBeforeJobs ==
  /\ main.fetches <= 1
  /\ main.pc = "start" <=> main.fetches = 0
  /\ \A y \in AllYears :
       /\ job[y].pc # "none" => main.fetches = 1 /\ main.index = listing
       /\ job[y].stage # "none" => job[y].fn = pick_filename_for_year(main.index, y)
  /\ main.pc = "crashed" => \A y \in AllYears : job[y].pc = "none"
\* the text changes only when it is fetched (or with the start of a new run)
C18_IndexFixed ==
  main'.index # main.index =>
    \/ main.pc = "start" /\ main'.pc = "pool" /\ main'.index = listing
    \/ main'.pc = "start" /\ main'.fetches = 0
\* C18: in every run the listing is fetched exactly once, before any job's
\* resolve step; the text handed to the jobs is not modified afterwards;
\* when the fetch fails no job is started.
C18_SingleFetchBeforeJobs == []C18_FetchedOnceBeforeJobs /\ [][C18_IndexFixed]_vars
C18_Witness ==
  /\ run = 2 /\ main.fetches = 1 /\ main.index # <<>>
  /\ job[1998].stage = "resolve" /\ job[1999].pc = "dl_get"

\* the regular .csv members of the archive
CsvMembers == {i \in 1..Len(xArch) : xArch[i].type = "reg" /\ is_csv(basename(xArch[i].name))}
\* an archive of regular files and directories that stay inside the output
\* directory, no two members with the same name
Benign ==
  /\ \A i \in 1..Len(xArch) : xArch[i].type \in {"reg", "dir"} /\ ~Unsafe(xArch[i])
  /\ \A i, j \in 1..Len(xArch) : i # j => xArch[i].name # xArch[j].name
\* C19: for such an archive, also with .csv members in sub-directories, a
\* second run of extract_all_safe after a completed first run extracts no
\* file and counts every .csv member as skipped, and a run that resumes an
\* interrupted one ends with every .csv member present with its full
\* content.
C19_IdempotentAndResumable ==
  (xRoutine = "extract_all_safe" /\ Benign /\ xCall = 2 /\ xPc = "returned")
    => /\ xFirst.pc = "returned"
            => xCount = 0 /\ xWrites = 0 /\ xSkipped = Cardinality(CsvMembers)
       /\ xFirst.pc = "killed"
            => \A i \in CsvMembers :
                 LET p == realpath(xTree, OutRoot \o xArch[i].name)
                 IN  p \in DOMAIN xTree /\ xTree[p] = Entry("file", xArch[i].size)

StageRank(st) == CASE st = "none" -> 0 [] st = "resolve" -> 1 [] st = "download" -> 2
                   [] st = "verify" -> 3 [] st = "extract" -> 4
\* extraction only after a verification that returned true in this invocation
C20_ExtractOnlyVerified ==
  \A y \in years :
    /\ (job[y].pc \in {"extract", "extractall"} \/ job[y].stage = "extract") => job[y].verified
    /\ job[y].status = "Done" => job[y].verified
    /\ job[y].pc = "done" => job[y].status \in Terminal
\* a step of a job within a run moves forward through the stages, starts
\* with verification when the archive is already there, sets `verified` only
\* by a verification of the final path that returned true, and a job in a
\* terminal state takes no step
C20_StepsForward ==
  \A y \in years :
    (job'[y] # job[y] /\ job'[y].pc # "none") =>
      /\ job[y].pc # "done"
      /\ StageRank(job'[y].stage) >= StageRank(job[y].stage)
      /\ (job[y].pc = "queued" /\ job'[y].pc # "done" /\ raw[RawPath(job'[y].fn, FALSE)].exists)
           => job'[y].pc = "verify" /\ ~job'[y].dl
      /\ (job'[y].verified /\ ~job[y].verified)
           => job[y].pc = "verify" /\ verify_gzip(raw[raw_path(y)], remote[y])
      /\ job'[y].stage = "extract" /\ job[y].stage # "extract" => job[y].stage = "verify"
      /\ job'[y].stage = "verify" /\ job[y].stage # "verify"
           => job[y].stage \in {"resolve", "download", "none"}
\* C20: within one invocation the stages come in the order resolve,
\* transfer, verify, extract and none is revisited; extraction starts only
\* after the archive at its final path was verified in this invocation, also
\* when the archive was already present and the download skipped; a job in
\* a terminal state takes no further step.
C20_StageOrder == []C20_ExtractOnlyVerified /\ [][C20_StepsForward]_vars
C20_Witness ==
  \E y \in years : job[y].pc = "extractall" /\ ~job[y].dl /\ job[y].verified /\ run = 2

\* the period's output directory held an entry when the run began
PopulatedAtStart(y) ==
  OutRoot \in DOMAIN hist[y].prevTree /\ listdir(hist[y].prevTree, OutRoot) # {}
\* C21: a job whose output directory already holds an entry ends Skipped,
\* whatever the listing contains (also with no entry for the period), with
\* no content request and nothing written.
C21_PopulatedMeansSkipped ==
  \A y \in years :
    (job[y].pc = "done" /\ PopulatedAtStart(y))
      => job[y].status = "Skipped" /\ hist[y].gets = 0 /\ hist[y].writes = 0

\* C22: a job fails in the download after a transient failure (a failed
\* request, a broken stream, an incomplete transfer) only when the fetch was
\* attempted again within the job and the attempts are exhausted; a
\* non-transient status fails it at once, without another attempt.
C22_TransientFailuresRetried ==
  \A y \in years :
    (job[y].pc = "done" /\ job[y].status = "Failed" /\ job[y].stage = "download")
      => /\ job[y].err \in {"incomplete", "stream"} => hist[y].gets > 1
         /\ job[y].err = "request" => job[y].retries = RETRIES
         /\ job[y].err = "status" => job[y].retries = 0 /\ hist[y].gets <= 1

\* C23: the content request carries a Range header exactly when the
\* partial file is opened in append mode; when the file is created or
\* truncated the request has no Range header.
C23_RangeIffAppend ==
  \A y \in years :
    job[y].pc \in {"dl_get", "dl_stream"}
      => (job[y].range # NoRange <=> job[y].mode = "ab")

\* distinct periods resolve to distinct archive names, each of its own period
C24_DistinctTargets ==
  \A y1, y2 \in years :
    job[y1].fn # None =>
      /\ job[y1].fn.year = y1
      /\ (y1 # y2 => job[y1].fn # job[y2].fn)
\* a file of the raw directory changes only by a step of the running job
\* that resolved to its name (or by the cleanup of main), and an extraction
\* directory only by a step of its own period's running job
C24_OwnedWrites ==
  /\ \A p \in RawPaths :
       raw'[p] # raw[p] =>
         \/ CleanupStep
         \/ /\ p.name.year \in Running /\ job[p.name.year].fn = p.name
            /\ \A z \in AllYears \ {p.name.year} : job'[z] = job[z]
  /\ \A y \in AllYears :
       tree'[y] # tree[y] =>
         y \in Running /\ \A z \in AllYears \ {y} : job'[z] = job[z]
\* what a run of the jobs one after another leaves on disk for a period
\* whose archive holds a.csv
SequentialTree(y) ==
  IF YearListed(y)
  THEN (OutRoot \o <<"a.csv">> :> Entry("file", 1)) @@ (OutRoot :> Entry("dir", 0)) @@ YearTree
  ELSE YearTree
SequentialRaw(p) ==
  IF keep_tar /\ ~p.part /\ job[p.name.year].fn = p.name THEN File(Object) ELSE NoFile
C24_SameAsSequential ==
  HealthyFirstRun =>
    /\ \A y \in years : tree[y] = SequentialTree(y)
    /\ \A p \in RawPaths : raw[p] = SequentialRaw(p)
C25_NoLinkMaterialised ==
  \A p \in DOMAIN xTree : IsPrefix(OutRoot, p) => xTree[p].kind \in {"dir", "file"}

\* the regular-file members of the archive that pass safe_extract's guard
GuardPassing ==
  {i \in 1..Len(xArch) :
     xArch[i].type = "reg" /\ is_safe_path(xTree, OutRoot, OutRoot \o xArch[i].name)}
Dest(i) == realpath(xTree, OutRoot \o xArch[i].name)
HasOwnSize(i) ==
  Dest(i) \in DOMAIN xTree /\ xTree[Dest(i)] = Entry("file", xArch[i].size)
\* the step of safe_extract on a guard-passing regular-file member: it is
\* skipped exactly when a file of the member's size is there; otherwise it
\* is written (or the call raises)
C26_SkipIffSameSize ==
  (xRoutine = "safe_extract" /\ xPc = "loop" /\ xIdx' = xIdx + 1 /\ xIdx \in GuardPassing)
    => /\ xSkipped' = xSkipped + 1 <=> HasOwnSize(xIdx)
       /\ xSkipped' = xSkipped + 1 => xTree' = xTree /\ xCount' = xCount
       /\ xSkipped' = xSkipped
            => \/ xPc' = "raised"
               \/ /\ xCount' = xCount + 1
                  /\ Dest(xIdx) \in DOMAIN xTree'
                  /\ xTree'[Dest(xIdx)] = Entry("file", xArch[xIdx].size)
\* after safe_extract returns, every guard-passing regular-file member has
\* a destination file of the member's size, and extracted + skipped is the
\* number of such members
C26_EveryMemberHasItsSize ==
  (xRoutine = "safe_extract" /\ xPc = "returned")
    => /\ \A i \in GuardPassing : HasOwnSize(i)
       /\ xCount + xSkipped = Cardinality(GuardPassing)
\* C26: safe_extract skips a regular-file member exactly when a file of the
\* member's size exists at its guarded destination and rewrites a file of
\* another size; when it returns, every guard-passing regular-file member
\* has a destination file of its size and extracted + skipped counts them.
C26_SkipBySize == []C26_EveryMemberHasItsSize /\ [][C26_SkipIffSameSize]_vars

\* what extractall leaves when it runs from member i on without interruption
RECURSIVE ExtractFrom(_, _, _, _)
ExtractFrom(t, arch, i, filter) ==
  IF i > Len(arch) THEN t
  ELSE LET r == extractall_member(t, OutRoot, arch[i], filter)
       IN  IF r.what = "raise" THEN r.tree ELSE ExtractFrom(r.tree, arch, i + 1, filter)
\* the output tree of the period after one uninterrupted job on an empty disk
UninterruptedTree(y) ==
  LET b == extract_year_tar_begin(YearTree, OutRoot, remote[y].members)
  IN  IF b.what = "extract" THEN ExtractFrom(b.tree, remote[y].members, 1, pyfilter)
      ELSE b.tree
\* C27: whatever interrupted or failed in earlier runs, a job reports the
\* period as already extracted (Skipped) only when the output tree holds
\* what an uninterrupted extraction of the archive produces, and a job that
\* ends Done leaves that tree.
C27_InterruptConsistency ==
  \A y \in years :
    (job[y].pc = "done" /\ job[y].status \in {"Skipped", "Done"})
      => tree[y] = UninterruptedTree(y)

\* C28: when download_with_resume returns and the server reported a total
\* size T > 0, the published file has exactly T chunks, whatever partial
\* file was there and however the server treats the Range header.
C28_PublishedSizeIsTotal ==
  \A y \in years :
    (Published(y) /\ job[y].total > 0)
      => Len(raw[raw_path(y)].data) = job[y].total

\* a server that advertises and honours ranges and reports the size
Healthy == server = [advertise |-> TRUE, honour |-> TRUE, reportLen |-> TRUE]
\* C29: against a healthy, range-capable server no partial file left by an
\* earlier run makes the job fail by itself: a job fails in the download
\* only through a failure of the transfer (a failed request, a broken or
\* short stream), never through the answer to the request it built from
\* the partial file.
C29_NoStuckPartial ==
  \A y \in years :
    (Healthy /\ job[y].pc = "done" /\ job[y].status = "Failed" /\ job[y].stage = "download")
      => job[y].err \in {"request", "stream", "incomplete"}

\* two archives that extract_tar sends to the same year directory
SameDir(i, j) == i # j /\ year_of(uFiles[i]) = year_of(uFiles[j])
\* the thread passed the emptiness check and has called extractall
Extracts(i) == uJob[i].pc = "extract" \/ uJob[i].result = "done"
C30_OneExtractor ==
  \A i, j \in DOMAIN uJob : SameDir(i, j) => ~(Extracts(i) /\ Extracts(j))
C30_SkipOnlyComplete ==
  \A i \in DOMAIN uJob :
    (i \in DOMAIN uJob' /\ uJob[i].result = "none" /\ uJob'[i].result = "skipped")
      => ~\E j \in DOMAIN uJob : SameDir(i, j) /\ uJob[j].pc = "extract"
\* C30: in unpack_isd_all, whatever the archives of the raw directory and
\* the interleaving of the threads, at most one thread extracts into a year
\* directory, and no archive is skipped while another thread's extraction
\* into that directory is under way.
C30_NoRace == []C30_OneExtractor /\ [][C30_SkipOnlyComplete]_vars

====
